---- MODULE Spec2Model ----
(***************************************************************************)
(* A model of many-color.go: hex colour lines are parsed and one flat PNG  *)
(* per valid line is written.  The source file holds two revisions of the  *)
(* program (lines 1-157 and 159-302); definitions of the second revision   *)
(* carry the suffix _r2 where the two differ.                              *)
(*                                                                         *)
(* Go strings are modelled as sequences of one-character strings.          *)
(***************************************************************************)
EXTENDS Integers, Sequences, FiniteSets, TLC

VARIABLES
    rev,        \* which revision of main runs: 1 or 2
    pc,         \* position of main: "getInput", "parseSize", "scan" (at
                \* scanner.Scan()), "return" (the loop was left), "exited"
    flags,      \* [size, file]: the -size and -file flag values
    env,        \* what the OS reports for the input source
    dir0,       \* the working directory when the program starts
    input,      \* the stream getInput returned: Nil, "file" or "stdin"
    lines,      \* the tokens scanner.Text() yields, in order
    sz,         \* the parsed Size (s / width,height)
    files,      \* the working directory: file name stem -> content or NoFile
    count,      \* var count int of main
    out,        \* what was printed to standard output
    closes,     \* number of Close calls made on the input stream
    exitCode,   \* -1 while running, else the process exit status
    deferred,   \* the calls main has deferred, run when main returns
    faults,     \* number of I/O failures injected so far
    trace,      \* history: one record per line handed to generateImage
    arg,        \* argument of the pure function under test
    ret,        \* its result
    ret2        \* result of parsing ret's canonical name again

vars == <<rev, pc, flags, env, dir0, input, lines, sz, files, count, out, closes,
          exitCode, deferred, faults, trace, arg, ret, ret2>>

progVars == <<rev, pc, flags, env, dir0, input, lines, sz, files, count, out, closes,
              exitCode, deferred, faults, trace>>

fnVars == <<arg, ret, ret2>>

----------------------------------------------------------------------------
(* Bounds of the model.                                                    *)

MaxHexLen == 6
MaxSizeLen == 6
MaxLines == 2
MaxFaults == 1

----------------------------------------------------------------------------
(* Characters and strings.                                                 *)

Nil == "nil"

LowerHex == <<"0","1","2","3","4","5","6","7","8","9","a","b","c","d","e","f">>
UpperHex == <<"0","1","2","3","4","5","6","7","8","9","A","B","C","D","E","F">>
Digits == <<"0","1","2","3","4","5","6","7","8","9">>

IndexOf(c, tbl) == IF \E i \in 1..Len(tbl) : tbl[i] = c
                   THEN CHOOSE i \in 1..Len(tbl) : tbl[i] = c
                   ELSE 0

\* the character class [0-9a-f]
InClassHex(c) == IndexOf(c, LowerHex) # 0
\* the character class [0-9]
InClassDigit(c) == IndexOf(c, Digits) # 0
\* the character class [1-9]
InClassNonZero(c) == IndexOf(c, Digits) > 1

SeqsUpTo(S, n) == UNION { [1..k -> S] : k \in 0..n }

Join(strs) == strs[1] \o strs[2] \o strs[3]

----------------------------------------------------------------------------
(* The colour patterns and parseHex.                                       *)

\* colorRegex: each pattern is three anchored groups of [0-9a-f], of width
\* 2 (first pattern) or 1 (second pattern).
colorRegex == <<2, 1>>

\* FindStringSubmatch on all-hex inputs accepted by a case-insensitive class
colorFindIgnoreCase(w, str) ==
    IF Len(str) = 3 * w
       /\ \A i \in 1..Len(str) : InClassHex(str[i]) \/ IndexOf(str[i], UpperHex) # 0
    THEN <<str, SubSeq(str, 1, w), SubSeq(str, w + 1, 2 * w),
           SubSeq(str, 2 * w + 1, 3 * w)>>
    ELSE <<>>

\* r.FindStringSubmatch(str) for r in colorRegex: the whole match and the
\* three groups, or the empty slice when str does not match ^...$.
colorFind(w, str) ==
    IF Len(str) = 3 * w /\ \A i \in 1..Len(str) : InClassHex(str[i])
    THEN <<str, SubSeq(str, 1, w), SubSeq(str, w + 1, 2 * w),
           SubSeq(str, 2 * w + 1, 3 * w)>>
    ELSE <<>>

\* value of one base-16 digit, -1 if it is none
HexDigitVal(c) == IF IndexOf(c, LowerHex) # 0 THEN IndexOf(c, LowerHex) - 1
                  ELSE IF IndexOf(c, UpperHex) # 0 THEN IndexOf(c, UpperHex) - 1
                  ELSE -1

RECURSIVE Base16(_)
Base16(str) == IF str = <<>> THEN 0
               ELSE 16 * Base16(SubSeq(str, 1, Len(str) - 1))
                    + HexDigitVal(str[Len(str)])

\* v, _ := strconv.ParseInt(str, 16, 0): the value, or 0 on a syntax error
\* (the error is discarded).  Inputs here have at most 4 digits.
ParseInt16(str) ==
    IF str # <<>> /\ \A i \in 1..Len(str) : HexDigitVal(str[i]) >= 0
    THEN Base16(str)
    ELSE 0

\* uint8(v)
Uint8(v) == v % 256

\* if len(str) == 1 { str += str } with the length test dropped
DoubleAlways(str) == str \o str

\* if len(str) == 1 { str += str } without the doubling
DoubleNever(str) == str

\* if len(str) == 1 { str += str }
Double(str) == IF Len(str) = 1 THEN str \o str ELSE str

\* the zero value Hex{}: a nil Color and an empty Name.  A colour
\* color.RGBA{R, G, B, A} is the tuple <<R, G, B, A>>, nil the empty tuple.
HexZero == [Color |-> <<>>, Name |-> <<>>]

errNotHex == "parse: not a hex color"

\* hexParts after the loop over colorRegex: the first pattern that yields
\* four parts wins, else the result of the last pattern tried.
hexPartsOf(str) ==
    IF Len(colorFind(colorRegex[1], str)) = 4
    THEN colorFind(colorRegex[1], str)
    ELSE colorFind(colorRegex[2], str)

parseHex(str) ==
    LET hexParts == hexPartsOf(str) IN
    IF Len(hexParts) # 4
    THEN [hex |-> HexZero, err |-> errNotHex]
    ELSE LET strs == [i \in 1..3 |-> Double(hexParts[i + 1])]
             ints == [i \in 1..3 |-> Uint8(ParseInt16(strs[i]))]
         IN [hex |-> [Color |-> <<ints[1], ints[2], ints[3], 255>>,
                      Name |-> Join(strs)],
             err |-> Nil]

----------------------------------------------------------------------------
(* The size pattern, strconv.Atoi and parseSize.                           *)

\* last index of the run of [0-9] that starts at i (i - 1 if str[i] is none)
DigitRunEnd(str, i) ==
    IF \E k \in i..Len(str) : \A j \in i..k : InClassDigit(str[j])
    THEN CHOOSE k \in i..Len(str) :
            /\ \A j \in i..k : InClassDigit(str[j])
            /\ (k = Len(str) \/ ~InClassDigit(str[k + 1]))
    ELSE i - 1

\* the match of ([1-9][0-9]*)x([1-9][0-9]*) that starts exactly at i:
\* [from, mid, to] with str[mid] = "x", or NoMatch
NoMatch == [from |-> 0, mid |-> 0, to |-> 0]

sizeMatchAt(str, i) ==
    IF i <= Len(str) /\ InClassNonZero(str[i])
    THEN LET j == DigitRunEnd(str, i) IN
         IF j + 2 <= Len(str) /\ str[j + 1] = "x" /\ InClassNonZero(str[j + 2])
         THEN [from |-> i, mid |-> j + 1, to |-> DigitRunEnd(str, j + 2)]
         ELSE NoMatch
    ELSE NoMatch

\* sizeRegex.FindStringSubmatch(str) of the second revision, whose pattern
\* has no anchors: the leftmost match anywhere in str.
sizeRegex_r2(str) ==
    IF \E i \in 1..Len(str) : sizeMatchAt(str, i) # NoMatch
    THEN LET i == CHOOSE i \in 1..Len(str) :
                     /\ sizeMatchAt(str, i) # NoMatch
                     /\ \A k \in 1..(i - 1) : sizeMatchAt(str, k) = NoMatch
             m == sizeMatchAt(str, i)
         IN <<SubSeq(str, m.from, m.to), SubSeq(str, m.from, m.mid - 1),
              SubSeq(str, m.mid + 1, m.to)>>
    ELSE <<>>

\* sizeRegex.FindStringSubmatch(str) of the first revision:
\* ^([1-9][0-9]*)x([1-9][0-9]*)$ must cover the whole string.
sizeRegex(str) ==
    LET m == sizeMatchAt(str, 1) IN
    IF m # NoMatch /\ m.to = Len(str)
    THEN <<str, SubSeq(str, 1, m.mid - 1), SubSeq(str, m.mid + 1, Len(str))>>
    ELSE <<>>

\* the decimal digits of the largest int (strconv.IntSize = 64): 2^63 - 1
MaxIntDigits == <<"9","2","2","3","3","7","2","0","3","6","8","5","4","7","7",
                  "5","8","0","7">>
\* and of the magnitude of the smallest int: 2^63
MinIntDigits == <<"9","2","2","3","3","7","2","0","3","6","8","5","4","7","7",
                  "5","8","0","8">>

RECURSIVE StripZeros(_)
StripZeros(d) == IF Len(d) > 1 /\ d[1] = "0" THEN StripZeros(Tail(d)) ELSE d

\* d > limit as numbers, both digit strings without leading zeros
DigitsExceed(d, limit) ==
    \/ Len(d) > Len(limit)
    \/ /\ Len(d) = Len(limit)
       /\ \E i \in 1..Len(d) :
             /\ \A k \in 1..(i - 1) : d[k] = limit[k]
             /\ IndexOf(d[i], Digits) > IndexOf(limit[i], Digits)

\* the digit values of a digit string: c - '0' for each character
DigitVals(d) == [i \in 1..Len(d) |-> IndexOf(d[i], Digits) - 1]

\* A Go int is kept as its sign and its decimal magnitude (digit values,
\* most significant first, no leading zero): 2^63 - 1 is beyond TLC's
\* 32-bit integers.
IntZero == [neg |-> FALSE, mag |-> <<0>>]
MaxInt == [neg |-> FALSE, mag |-> DigitVals(MaxIntDigits)]
MinInt == [neg |-> TRUE, mag |-> DigitVals(MinIntDigits)]

\* the magnitude as a TLC integer, for magnitudes below 2^31
RECURSIVE Base10(_)
Base10(mag) == IF mag = <<>> THEN 0
               ELSE 10 * Base10(SubSeq(mag, 1, Len(mag) - 1)) + mag[Len(mag)]

IntVal(i) == IF i.neg THEN 0 - Base10(i.mag) ELSE Base10(i.mag)

errSyntax == "strconv.Atoi: invalid syntax"
errRange == "strconv.Atoi: value out of range"

\* strconv.Atoi(s): [v, err].  A string that is not an optional sign and
\* digits gives 0 and a syntax error; a number beyond the int gives the
\* nearest int (2^63 - 1 or -2^63) and a range error.
Atoi(s) ==
    LET neg == s # <<>> /\ s[1] = "-"
        body == IF s # <<>> /\ s[1] \in {"+", "-"} THEN Tail(s) ELSE s
    IN IF body = <<>> \/ \E i \in 1..Len(body) : ~InClassDigit(body[i])
       THEN [v |-> IntZero, err |-> errSyntax]
       ELSE IF DigitsExceed(StripZeros(body),
                            IF neg THEN MinIntDigits ELSE MaxIntDigits)
       THEN [v |-> IF neg THEN MinInt ELSE MaxInt, err |-> errRange]
       ELSE LET mag == DigitVals(StripZeros(body))
            IN [v |-> [neg |-> neg /\ mag # <<0>>, mag |-> mag], err |-> Nil]

\* the zero value Size{}
SizeZero == [Width |-> IntZero, Height |-> IntZero]

errInvalidSize == "parse: invalid size"

\* parseSize with the unanchored pattern of the second revision
parseSizeUnanchored(str) ==
    LET s == sizeRegex_r2(str) IN
    IF Len(s) # 3 THEN [size |-> SizeZero, err |-> errInvalidSize]
    ELSE IF Atoi(s[2]).err # Nil THEN [size |-> SizeZero, err |-> Atoi(s[2]).err]
    ELSE IF Atoi(s[3]).err # Nil THEN [size |-> SizeZero, err |-> Atoi(s[3]).err]
    ELSE [size |-> [Width |-> Atoi(s[2]).v, Height |-> Atoi(s[3]).v], err |-> Nil]

parseSize(str) ==
    LET s == sizeRegex(str) IN
    IF Len(s) # 3 THEN [size |-> SizeZero, err |-> errInvalidSize]
    ELSE IF Atoi(s[2]).err # Nil THEN [size |-> SizeZero, err |-> Atoi(s[2]).err]
    ELSE IF Atoi(s[3]).err # Nil THEN [size |-> SizeZero, err |-> Atoi(s[3]).err]
    ELSE [size |-> [Width |-> Atoi(s[2]).v, Height |-> Atoi(s[3]).v], err |-> Nil]

\* lines 195-205 of the second revision's main: the same steps inline, each
\* failure ending in exitf.  named - the string the message prints: the
\* whole flag when the pattern fails, the first group when the width fails
\* and the first group again when the height fails.
parseSize_r2(str) ==
    LET s == sizeRegex_r2(str) IN
    IF Len(s) # 3
    THEN [size |-> SizeZero, err |-> "Failed to parse size", named |-> str]
    ELSE IF Atoi(s[2]).err # Nil
    THEN [size |-> SizeZero, err |-> "Failed to parse width", named |-> s[2]]
    ELSE IF Atoi(s[3]).err # Nil
    THEN [size |-> SizeZero, err |-> "Failed to parse height", named |-> s[2]]
    ELSE [size |-> [Width |-> Atoi(s[2]).v, Height |-> Atoi(s[3]).v],
          err |-> Nil, named |-> <<>>]

----------------------------------------------------------------------------
(* The program state while only a pure function is exercised.              *)

ProgIdle ==
    /\ rev = 0
    /\ pc = "idle"
    /\ flags = [size |-> <<>>, file |-> ""]
    /\ env = <<>>
    /\ dir0 = <<>>
    /\ input = Nil
    /\ lines = <<>>
    /\ sz = SizeZero
    /\ files = <<>>
    /\ count = 0
    /\ out = <<>>
    /\ closes = 0
    /\ exitCode = -1
    /\ deferred = <<>>
    /\ faults = 0
    /\ trace = <<>>

----------------------------------------------------------------------------
(* SpecHex: parseHex applied to every string over a small alphabet, and    *)
(* applied again to the canonical name it returned.                        *)

HexAlphabet == {"0", "9", "c", "f", "F", "g", " "}

HexSamples ==
    { <<"a","b","c">>, <<"a","a","b","b","c","c">>, <<"f","f","f","f","f","f">>,
      <<"f","0","0">>, <<"1","2","3","4","5","6">>, <<"d","e","7","8","a","b">>,
      <<"#","a","b","c">>, <<"a","b","c","\n">>, <<"a","b","g">>,
      <<"A","B","C">>, <<"a","b","c","d","e","f","0","1","2">>,
      <<"0","x","1","2","3","4">>, <<"b","a","d">>, <<"a","b">> }

HexInputs == SeqsUpTo(HexAlphabet, MaxHexLen) \cup HexSamples

InitHex ==
    /\ arg \in HexInputs
    /\ ret = <<>>
    /\ ret2 = <<>>
    /\ ProgIdle

\* h, err := parseHex(arg)
CallParseHex ==
    /\ pc = "idle" /\ ret = <<>>
    /\ ret' = <<parseHex(arg)>>
    /\ UNCHANGED <<arg, ret2>>
    /\ UNCHANGED progVars

\* parseHex(h.Name) after a successful parse
CallParseHexAgain ==
    /\ pc = "idle" /\ ret # <<>> /\ ret2 = <<>>
    /\ ret[1].err = Nil
    /\ ret2' = <<parseHex(ret[1].hex.Name)>>
    /\ UNCHANGED <<arg, ret>>
    /\ UNCHANGED progVars

NextHex == CallParseHex \/ CallParseHexAgain

SpecHex == InitHex /\ [][NextHex]_vars

----------------------------------------------------------------------------
(* SpecSize: parseSize applied to every string over a small alphabet and   *)
(* to numbers around the int range.                                        *)

SizeAlphabet == {"0", "1", "7", "x", "a", " "}

SizeSamples ==
    { <<"8","0","0","x","6","0","0">>, <<"0","x","5">>, <<"1","0","x">>,
      <<"a","2","x","2","b">>, <<"2","x","2","\n">>, <<"-","1","x","2">>,
      <<"1","0","X","5">>, <<"3","x","0","4">>,
      MaxIntDigits \o <<"x","1">>, <<"1","x">> \o MaxIntDigits \o <<"0">>,
      MinIntDigits \o <<"x","1">>, <<"1","x">> \o MinIntDigits,
      <<"1","x","9","9","9","9","9","9","9","9","9","9","9","9","9","9","9",
        "9","9","9","9","9">> }

SizeInputs == SeqsUpTo(SizeAlphabet, MaxSizeLen) \cup SizeSamples

InitSize ==
    /\ arg \in SizeInputs
    /\ ret = <<>>
    /\ ret2 = <<>>
    /\ ProgIdle

\* s, err := parseSize(arg)
CallParseSize ==
    /\ pc = "idle" /\ ret = <<>>
    /\ ret' = <<parseSize(arg)>>
    /\ UNCHANGED <<arg, ret2>>
    /\ UNCHANGED progVars

NextSize == CallParseSize

SpecSize == InitSize /\ [][NextSize]_vars

----------------------------------------------------------------------------
(* The input source: getInput.                                             *)

\* What the OS reports: openErr - os.Open(file) fails; statErr -
\* os.Stdin.Stat() fails; charDevice - standard input is a terminal;
\* stdinSize - info.Size() of standard input.
\* Each choice pairs the -file flag with such a report; the fields the
\* chosen branch of getInput never reads are held fixed.
InputChoices ==
    { [file |-> "colors.txt",
       env |-> [openErr |-> o, statErr |-> FALSE, charDevice |-> TRUE,
                stdinSize |-> 0]] : o \in BOOLEAN }
    \cup { [file |-> "",
             env |-> [openErr |-> FALSE, statErr |-> TRUE,
                      charDevice |-> FALSE, stdinSize |-> 0]] }
    \cup { [file |-> "",
             env |-> [openErr |-> FALSE, statErr |-> FALSE,
                      charDevice |-> c, stdinSize |-> n]] :
             c \in BOOLEAN, n \in {0, 12} }

errOpenInput == "open: no such file or directory"
errStat == "stat: bad file descriptor"
errPipe == "Pipe input is invalid"

\* getInput(file): [stream, err]; stream is "file" for an *os.File,
\* "stdin" for the NopCloser around standard input, Nil on error.
getInput(file, e) ==
    IF file # ""
    THEN IF e.openErr THEN [stream |-> Nil, err |-> errOpenInput]
         ELSE [stream |-> "file", err |-> Nil]
    ELSE IF e.statErr THEN [stream |-> Nil, err |-> errStat]
    ELSE IF e.charDevice \/ e.stdinSize <= 0
         THEN [stream |-> Nil, err |-> errPipe]
    ELSE [stream |-> "stdin", err |-> Nil]

----------------------------------------------------------------------------
(* Rasters, PNG files and generateImage.                                   *)

Reverse(q) == [i \in 1..Len(q) |-> q[Len(q) + 1 - i]]

\* a + b + carry on digit values, least significant digit first
RECURSIVE AddLE(_, _, _)
AddLE(a, b, carry) ==
    IF a = <<>> /\ b = <<>>
    THEN IF carry = 0 THEN <<>> ELSE <<carry>>
    ELSE LET x == IF a = <<>> THEN 0 ELSE Head(a)
             y == IF b = <<>> THEN 0 ELSE Head(b)
             t == x + y + carry
         IN <<t % 10>> \o AddLE(IF a = <<>> THEN a ELSE Tail(a),
                                IF b = <<>> THEN b ELSE Tail(b), t \div 10)

\* a * d + carry for one digit d
RECURSIVE MulDigitLE(_, _, _)
MulDigitLE(a, d, carry) ==
    IF a = <<>>
    THEN IF carry = 0 THEN <<>> ELSE <<carry>>
    ELSE LET t == Head(a) * d + carry
         IN <<t % 10>> \o MulDigitLE(Tail(a), d, t \div 10)

RECURSIVE MulLE(_, _)
MulLE(a, b) ==
    IF b = <<>> THEN <<>>
    ELSE AddLE(MulDigitLE(a, Head(b), 0), <<0>> \o MulLE(a, Tail(b)), 0)

RECURSIVE StripZeroVals(_)
StripZeroVals(m) ==
    IF Len(m) > 1 /\ m[1] = 0 THEN StripZeroVals(Tail(m)) ELSE m

\* the product of two magnitudes
MulMag(a, b) ==
    LET q == MulLE(Reverse(a), Reverse(b))
    IN IF q = <<>> THEN <<0>> ELSE StripZeroVals(Reverse(q))

\* a > b for magnitudes
MagExceeds(a, b) ==
    \/ Len(a) > Len(b)
    \/ /\ Len(a) = Len(b)
       /\ \E i \in 1..Len(a) :
             /\ \A k \in 1..(i - 1) : a[k] = b[k]
             /\ a[i] > b[i]

MinusOne == [neg |-> TRUE, mag |-> <<1>>]

\* 2^64 - 1, the largest uint64
MaxUint64Mag == DigitVals(<<"1","8","4","4","6","7","4","4","0","7","3","7",
                            "0","9","5","5","1","6","1","5">>)

\* image.mul3NonNeg(x, y, z): x*y*z, or -1 when an argument is negative or
\* a product overflows
mul3NonNeg(x, y, z) ==
    IF x.neg \/ y.neg \/ z.neg THEN MinusOne
    ELSE LET xy == MulMag(x.mag, y.mag)
             xyz == MulMag(xy, z.mag)
         IN IF MagExceeds(xy, MaxUint64Mag) \/ MagExceeds(xyz, MaxInt.mag)
            THEN MinusOne
            ELSE [neg |-> FALSE, mag |-> xyz]

\* image.pixelBufferLength(4, Rect(0, 0, w, h)): the bytes of the pixel
\* buffer, 4 per pixel
pixelBufferLength(w, h) == mul3NonNeg([neg |-> FALSE, mag |-> <<4>>], w, h)

\* the runtime's largest allocation on a 64-bit build: 2^48 bytes
maxAlloc == DigitVals(<<"2","8","1","4","7","4","9","7","6","7","1","0","6",
                        "5","6">>)

panicHuge == "panic: image: NewRGBA Rectangle has huge or negative dimensions"
panicMakeslice == "panic: runtime error: makeslice: len out of range"
fatalOOM == "fatal error: runtime: out of memory"

\* How image.NewRGBA(image.Rect(0, 0, w, h)) ends: Nil - the image is
\* allocated; a panic when the buffer length overflows the int or exceeds
\* the largest allocation; the runtime's fatal error when the memory is
\* not there (mem).
IsPanic(crash) == crash \in {panicHuge, panicMakeslice}

NewRGBA(w, h, mem) ==
    LET n == pixelBufferLength(w, h) IN
    IF n.neg THEN panicHuge
    ELSE IF MagExceeds(n.mag, maxAlloc) THEN panicMakeslice
    ELSE IF mem THEN fatalOOM
    ELSE Nil

\* the image NewRGBA allocated, after the loops Set every pixel to c
FilledRGBA(w, h, c) ==
    [w |-> w, h |-> h,
     pix |-> [xy \in (0..(w - 1)) \X (0..(h - 1)) |-> c]]

RECURSIVE Flatten(_)
Flatten(ss) == IF ss = <<>> THEN <<>> ELSE Head(ss) \o Flatten(Tail(ss))

\* png.Encode's output as a sequence of chunks: signature, IHDR with the
\* dimensions, one IDAT chunk per row of pixels, IEND.  The stream grows
\* with the height of the image.
Encode(img) ==
    <<[type |-> "sig", data |-> <<137, 80, 78, 71>>],
      [type |-> "IHDR", data |-> <<img.w, img.h>>]>>
    \o [y \in 1..img.h |->
          [type |-> "IDAT",
           data |-> Flatten([x \in 1..img.w |-> img.pix[<<x - 1, y - 1>>]])]]
    \o <<[type |-> "IEND", data |-> <<>>]>>

\* fmt.Sprintf("%s.png", name)
PngName(name) == name \o <<".", "p", "n", "g">>

\* os.OpenFile(name, os.O_WRONLY|os.O_CREATE, 0644): the file is created
\* empty if absent; an existing file keeps its content.
OpenFile(fs, name) ==
    IF name \in DOMAIN fs THEN fs ELSE fs @@ (name :> <<>>)

\* writing data from offset 0 of an open file: bytes beyond the written
\* range stay as they were
WriteAt0(fs, name, data) ==
    [fs EXCEPT ![name] =
        data \o SubSeq(fs[name], Len(data) + 1, Len(fs[name]))]

errOpenOutput == "open: permission denied"
errEncode == "write: no space left on device"

\* The failures one call of generateImage may meet: mem - the pixel buffer
\* cannot be allocated; open - OpenFile fails; enc - png.Encode fails after
\* writing enc chunks (-1: no failure); close - f.Close() fails.  A failure
\* of an earlier step leaves the later ones unreached.
NoFault == [mem |-> FALSE, open |-> FALSE, enc |-> -1, close |-> FALSE]

FaultChoices(encLen) ==
    { [NoFault EXCEPT !.mem = TRUE], [NoFault EXCEPT !.open = TRUE] }
    \cup { [NoFault EXCEPT !.enc = k, !.close = c] :
             k \in -1..(encLen - 1), c \in BOOLEAN }

\* generateImage(hex, s) of the first revision.  Result: err - the error
\* returned; fs - the directory afterwards; fatal - TRUE when the deferred
\* Close(f) failed and called os.Exit(1); crash - how NewRGBA ended the
\* process, Nil when it did not; used - failures that took effect.
generateImage(hex, s, fs, flt) ==
    LET p == parseHex(hex) IN
    IF p.err # Nil
    THEN [err |-> p.err, fs |-> fs, fatal |-> FALSE, used |-> 0,
          c |-> p.hex, opened |-> FALSE, encErr |-> Nil, crash |-> Nil]
    ELSE IF NewRGBA(s.Width, s.Height, flt.mem) # Nil
    THEN [err |-> Nil, fs |-> fs, fatal |-> FALSE,
          used |-> IF NewRGBA(s.Width, s.Height, flt.mem) = fatalOOM
                   THEN 1 ELSE 0,
          c |-> p.hex, opened |-> FALSE, encErr |-> Nil,
          crash |-> NewRGBA(s.Width, s.Height, flt.mem)]
    ELSE IF flt.open
    THEN [err |-> errOpenOutput, fs |-> fs, fatal |-> FALSE, used |-> 1,
          c |-> p.hex, opened |-> FALSE, encErr |-> Nil, crash |-> Nil]
    ELSE LET name == PngName(p.hex.Name)
             enc == Encode(FilledRGBA(IntVal(s.Width), IntVal(s.Height),
                                      p.hex.Color))
             written == IF flt.enc >= 0 THEN SubSeq(enc, 1, flt.enc) ELSE enc
             encErr == IF flt.enc >= 0 THEN errEncode ELSE Nil
         IN [err |-> encErr,
             fs |-> WriteAt0(OpenFile(fs, name), name, written),
             fatal |-> flt.close,
             used |-> (IF flt.enc >= 0 THEN 1 ELSE 0)
                      + (IF flt.close THEN 1 ELSE 0),
             c |-> p.hex, opened |-> TRUE, encErr |-> encErr, crash |-> Nil]

\* strings.TrimLeft(s, "#"): every leading '#' is removed
RECURSIVE TrimLeftHash(_)
TrimLeftHash(str) ==
    IF str # <<>> /\ str[1] = "#" THEN TrimLeftHash(Tail(str)) ELSE str

\* generateImage(rawHex, width, height) of the second revision.  It returns
\* nothing: err - the error of the Skipping line it printed; the errors of
\* png.Encode and f.Close() are dropped.
generateImage_r2(rawHex, s, fs, flt) ==
    LET hex == TrimLeftHash(rawHex)
        p == parseHex(hex)
    IN
    IF p.err # Nil
    THEN [err |-> p.err, fs |-> fs, fatal |-> FALSE, used |-> 0,
          c |-> p.hex, opened |-> FALSE, encErr |-> Nil, crash |-> Nil]
    ELSE IF NewRGBA(s.Width, s.Height, flt.mem) # Nil
    THEN [err |-> Nil, fs |-> fs, fatal |-> FALSE,
          used |-> IF NewRGBA(s.Width, s.Height, flt.mem) = fatalOOM
                   THEN 1 ELSE 0,
          c |-> p.hex, opened |-> FALSE, encErr |-> Nil,
          crash |-> NewRGBA(s.Width, s.Height, flt.mem)]
    ELSE IF flt.open
    THEN [err |-> errOpenOutput, fs |-> fs, fatal |-> FALSE, used |-> 1,
          c |-> p.hex, opened |-> FALSE, encErr |-> Nil, crash |-> Nil]
    ELSE LET name == PngName(p.hex.Name)
             enc == Encode(FilledRGBA(IntVal(s.Width), IntVal(s.Height),
                                      p.hex.Color))
             written == IF flt.enc >= 0 THEN SubSeq(enc, 1, flt.enc) ELSE enc
         IN [err |-> Nil,
             fs |-> WriteAt0(OpenFile(fs, name), name, written),
             fatal |-> FALSE,
             used |-> (IF flt.enc >= 0 THEN 1 ELSE 0)
                      + (IF flt.close THEN 1 ELSE 0),
             c |-> p.hex, opened |-> TRUE,
             encErr |-> IF flt.enc >= 0 THEN errEncode ELSE Nil,
             crash |-> Nil]

----------------------------------------------------------------------------
(* Spec: the two revisions of main, one action per step of main.           *)

Msg(kind, str, err, n) == [kind |-> kind, str |-> str, err |-> err, n |-> n]

\* 2147483647x2147483647 asks for 4 * (2^31 - 1)^2 bytes of pixels
HugeSize == <<"2","1","4","7","4","8","3","6","4","7","x",
              "2","1","4","7","4","8","3","6","4","7">>

\* twenty nines: beyond the 64-bit int
Nines == [i \in 1..20 |-> "9"]

SizeFlags ==
    { <<"2","x","1">>, <<"0","x","5">>, <<"1","0","x">>,
      <<"a","2","x","1","b">>, HugeSize,
      Nines \o <<"x","1">>, <<"1","x">> \o Nines }

LineSamples ==
    { <<"#","f","f","f","f","f","f">>, <<"b","a","d">>, <<"f","0","0">>,
      <<"#","#","f","0","0">>, <<"r","e","d">> }

White == <<255, 255, 255, 255>>
Red == <<255, 0, 0, 255>>
NameWhite == PngName(<<"f","f","f","f","f","f">>)
NameRed == PngName(<<"f","f","0","0","0","0">>)

\* Directories the program may start in: empty, or holding images that an
\* earlier run with -size 3x3 left behind.
DirChoices ==
    { [n \in {} |-> <<>>],
      (NameWhite :> Encode(FilledRGBA(3, 3, White)))
        @@ (NameRed :> Encode(FilledRGBA(1, 1, Red))) }

Init ==
    /\ rev \in {1, 2}
    /\ pc = "getInput"
    /\ \E i \in InputChoices, size \in SizeFlags :
          /\ flags = [size |-> size, file |-> i.file]
          /\ env = i.env
    /\ dir0 \in DirChoices
    /\ input = Nil
    /\ lines \in SeqsUpTo(LineSamples, MaxLines)
    /\ sz = SizeZero
    /\ files = dir0
    /\ count = 0
    /\ out = <<>>
    /\ closes = 0
    /\ exitCode = -1
    /\ deferred = <<>>
    /\ faults = 0
    /\ trace = <<>>
    /\ arg = <<>> /\ ret = <<>> /\ ret2 = <<>>

\* lines 31-37 / 189-193: input, err := getInput(file); on an error print
\* it with the usage and os.Exit(1).  The first revision defers
\* Close(input) right here.
GetInput ==
    /\ pc = "getInput"
    /\ LET r == getInput(flags.file, env) IN
       IF r.err # Nil
       THEN /\ out' = IF rev = 1
                      THEN out \o <<Msg("error", <<>>, r.err, 0),
                                    Msg("usage", <<>>, Nil, 0)>>
                      ELSE out \o <<Msg("usage", <<>>, Nil, 0),
                                    Msg("error", <<>>, r.err, 0)>>
            /\ exitCode' = 1
            /\ pc' = "exited"
            /\ UNCHANGED <<input, deferred>>
       ELSE /\ input' = r.stream
            /\ deferred' = IF rev = 1 THEN <<"Close(input)">> ELSE deferred
            /\ out' = IF rev = 2
                      THEN Append(out, Msg("reading", <<>>, r.stream, 0))
                      ELSE out
            /\ pc' = "parseSize"
            /\ UNCHANGED exitCode
    /\ UNCHANGED <<rev, flags, env, dir0, lines, sz, files, count, closes,
                   faults, trace>>
    /\ UNCHANGED fnVars

\* lines 39-44 with the exit dropped: a bad -size is reported and main
\* goes on with the zero Size
ParseSizeFlagNoExit ==
    /\ pc = "parseSize" /\ rev = 1
    /\ LET r == parseSize(flags.size) IN
       /\ sz' = r.size
       /\ pc' = "scan"
       /\ out' = IF r.err # Nil
                 THEN out \o <<Msg("error", <<>>, r.err, 0),
                               Msg("usage", <<>>, Nil, 0)>>
                 ELSE out
    /\ UNCHANGED <<rev, flags, env, dir0, input, lines, files, count, closes,
                   exitCode, deferred, faults, trace>>
    /\ UNCHANGED fnVars

\* lines 39-44: s, err := parseSize(size); on an error print it with the
\* usage and os.Exit(1), which runs no deferred call.
ParseSizeFlag ==
    /\ pc = "parseSize" /\ rev = 1
    /\ LET r == parseSize(flags.size) IN
       IF r.err # Nil
       THEN /\ out' = out \o <<Msg("error", <<>>, r.err, 0),
                               Msg("usage", <<>>, Nil, 0)>>
            /\ exitCode' = 1
            /\ pc' = "exited"
            /\ UNCHANGED sz
       ELSE /\ sz' = r.size
            /\ pc' = "scan"
            /\ UNCHANGED <<out, exitCode>>
    /\ UNCHANGED <<rev, flags, env, dir0, input, lines, files, count, closes,
                   deferred, faults, trace>>
    /\ UNCHANGED fnVars

\* lines 195-208: the second revision parses -size inline, exits through
\* exitf on a failure, prints the dimensions and only then defers
\* input.Close().
ParseSizeFlag_r2 ==
    /\ pc = "parseSize" /\ rev = 2
    /\ LET r == parseSize_r2(flags.size) IN
       IF r.err # Nil
       THEN /\ out' = Append(out, Msg("error", r.named, r.err, 0))
            /\ exitCode' = 1
            /\ pc' = "exited"
            /\ UNCHANGED <<sz, deferred>>
       ELSE /\ sz' = r.size
            /\ out' = Append(out, Msg("dimensions", <<>>, Nil, 0))
            /\ deferred' = Append(deferred, "input.Close()")
            /\ pc' = "scan"
            /\ UNCHANGED exitCode
    /\ UNCHANGED <<rev, flags, env, dir0, input, lines, files, count, closes,
                   faults, trace>>
    /\ UNCHANGED fnVars

\* the length of the PNG stream for the configured size; no stream when
\* the image cannot be allocated
EncLen ==
    IF NewRGBA(sz.Width, sz.Height, FALSE) # Nil THEN 0
    ELSE Len(Encode(FilledRGBA(IntVal(sz.Width), IntVal(sz.Height), White)))

\* count after one iteration when the continue is missing
nextCountNoContinue(cnt, err) == cnt + 1

\* lines 51-55: count++ is reached only when generateImage returned nil
nextCount(cnt, err) == IF err # Nil THEN cnt ELSE cnt + 1

\* whether the loop goes on, when an error ends it
loopGoesOnBreak(err) == err = Nil

\* line 53: continue - an error never ends the loop
loopGoesOn(err) == TRUE

TraceEntry(raw, hex, r) ==
    [raw |-> raw, hex |-> hex, err |-> r.err, name |-> r.c.Name,
     color |-> r.c.Color, opened |-> r.opened, encErr |-> r.encErr,
     fatal |-> r.fatal, crash |-> r.crash]

\* lines 49-56: one iteration of the scanner loop of the first revision.
\* A panic of NewRGBA unwinds main: the deferred Close(input) runs (a
\* failing Close prints its message and calls os.Exit(1)) and the process
\* ends with status 2.  The runtime's fatal error ends the process with
\* status 2 at once, no deferred call run.
ScanLine ==
    /\ pc = "scan" /\ rev = 1
    /\ Len(trace) < Len(lines)
    /\ \E flt \in FaultChoices(EncLen), closeErr \in BOOLEAN :
         LET raw == lines[Len(trace) + 1]
             hex == TrimLeftHash(raw)
         IN \E r \in {generateImage(hex, sz, files, flt)} :
            /\ faults + r.used <= MaxFaults
            /\ (r.used = 0 => flt = NoFault)
            /\ closeErr => /\ IsPanic(r.crash)
                           /\ input = "file"
                           /\ faults + r.used < MaxFaults
            /\ faults' = faults + r.used + (IF closeErr THEN 1 ELSE 0)
            /\ files' = r.fs
            /\ trace' = Append(trace, TraceEntry(raw, hex, r))
            /\ IF r.crash # Nil
               THEN /\ pc' = "exited"
                    /\ UNCHANGED count
                    /\ IF IsPanic(r.crash)
                       THEN /\ closes' = closes + Len(deferred)
                            /\ deferred' = <<>>
                            /\ out' = IF closeErr
                                      THEN Append(out, Msg("fatal", <<>>,
                                                           "close", 0))
                                      ELSE out
                            /\ exitCode' = IF closeErr THEN 1 ELSE 2
                       ELSE /\ exitCode' = 2
                            /\ UNCHANGED <<closes, deferred, out>>
               ELSE IF r.fatal
               THEN /\ out' = Append(out, Msg("fatal", <<>>, "close", 0))
                    /\ exitCode' = 1
                    /\ pc' = "exited"
                    /\ UNCHANGED <<count, closes, deferred>>
               ELSE /\ out' = IF r.err # Nil
                              THEN Append(out, Msg("skip", hex, r.err, 0))
                              ELSE out
                    /\ count' = nextCount(count, r.err)
                    /\ pc' = IF loopGoesOn(r.err) THEN "scan" ELSE "return"
                    /\ UNCHANGED <<exitCode, closes, deferred>>
    /\ UNCHANGED <<rev, flags, env, dir0, input, lines, sz>>
    /\ UNCHANGED fnVars

\* lines 215-217 and 220-242: one iteration of generateImages of the second
\* revision.  A panic of NewRGBA unwinds generateImage, generateImages and
\* main: the deferred input.Close() runs, its error dropped, and the
\* process ends with status 2; the runtime's fatal error ends it with
\* status 2 at once.
ScanLine_r2 ==
    /\ pc = "scan" /\ rev = 2
    /\ Len(trace) < Len(lines)
    /\ \E flt \in FaultChoices(EncLen), closeErr \in BOOLEAN :
         LET raw == lines[Len(trace) + 1]
             hex == TrimLeftHash(raw)
         IN \E r \in {generateImage_r2(raw, sz, files, flt)} :
            /\ faults + r.used <= MaxFaults
            /\ (r.used = 0 => flt = NoFault)
            /\ closeErr => /\ IsPanic(r.crash)
                           /\ input = "file"
                           /\ faults + r.used < MaxFaults
            /\ faults' = faults + r.used + (IF closeErr THEN 1 ELSE 0)
            /\ files' = r.fs
            /\ trace' = Append(trace, TraceEntry(raw, hex, r))
            /\ IF r.crash # Nil
               THEN /\ pc' = "exited"
                    /\ exitCode' = 2
                    /\ UNCHANGED out
                    /\ IF IsPanic(r.crash)
                       THEN /\ closes' = closes + Len(deferred)
                            /\ deferred' = <<>>
                       ELSE UNCHANGED <<closes, deferred>>
               ELSE /\ out' = IF r.err # Nil
                              THEN Append(out, Msg("skip", hex, r.err, 0))
                              ELSE Append(out, Msg("map", raw, Nil, 0))
                    /\ UNCHANGED <<pc, exitCode, closes, deferred>>
    /\ UNCHANGED <<rev, flags, env, dir0, input, lines, sz, count>>
    /\ UNCHANGED fnVars

\* lines 57-58 and 79-84: the scanner is exhausted; the summary is printed,
\* main returns and the deferred Close(input) runs.  A failing Close is
\* fatal.  The NopCloser around standard input never fails.
Finish ==
    /\ rev = 1
    /\ \/ pc = "scan" /\ Len(trace) = Len(lines)
       \/ pc = "return"
    /\ closes' = closes + Len(deferred)
    /\ \E closeErr \in BOOLEAN :
         /\ closeErr => (input = "file" /\ faults < MaxFaults)
         /\ faults' = IF closeErr THEN faults + 1 ELSE faults
         /\ out' = IF closeErr
                   THEN out \o <<Msg("generated", <<>>, Nil, count),
                                 Msg("fatal", <<>>, "close", 0)>>
                   ELSE Append(out, Msg("generated", <<>>, Nil, count))
         /\ exitCode' = IF closeErr THEN 1 ELSE 0
    /\ pc' = "exited"
    /\ deferred' = <<>>
    /\ UNCHANGED <<rev, flags, env, dir0, input, lines, sz, files, count, trace>>
    /\ UNCHANGED fnVars

\* lines 208-210: generateImages returns, main returns and the deferred
\* input.Close() runs; its error is dropped.
Finish_r2 ==
    /\ rev = 2
    /\ pc = "scan" /\ Len(trace) = Len(lines)
    /\ closes' = closes + Len(deferred)
    /\ \E closeErr \in BOOLEAN :
         /\ closeErr => (input = "file" /\ faults < MaxFaults)
         /\ faults' = IF closeErr THEN faults + 1 ELSE faults
    /\ exitCode' = 0
    /\ pc' = "exited"
    /\ deferred' = <<>>
    /\ UNCHANGED <<rev, flags, env, dir0, input, lines, sz, files, count, out,
                   trace>>
    /\ UNCHANGED fnVars

Next ==
    \/ GetInput
    \/ ParseSizeFlag
    \/ ParseSizeFlag_r2
    \/ ScanLine
    \/ ScanLine_r2
    \/ Finish
    \/ Finish_r2

Spec == Init /\ [][Next]_vars

----------------------------------------------------------------------------
(* What the specification expects, stated without the parser.              *)

HexChars == {"0","1","2","3","4","5","6","7","8","9","a","b","c","d","e","f"}

\* exactly 6 or exactly 3 characters, all from [0-9a-f]
IsHexColour(str) ==
    /\ Len(str) \in {3, 6}
    /\ \A i \in 1..Len(str) : str[i] \in HexChars

\* the canonical name of a hex colour: 3-digit input with each digit doubled
Canon(str) == IF Len(str) = 3
              THEN <<str[1], str[1], str[2], str[2], str[3], str[3]>>
              ELSE str

NibbleVal(c) == CHOOSE v \in 0..15 : LowerHex[v + 1] = c

\* the base-16 value of the k-th two-character group of a canonical name
GroupVal(name, k) == 16 * NibbleVal(name[2 * k - 1]) + NibbleVal(name[2 * k])

Abc == <<"a","b","c">>
Aabbcc == <<"a","a","b","b","c","c">>

\* C1: for every string of exactly 6 or exactly 3 characters from [0-9a-f],
\* parseHex succeeds; the canonical name is the string itself (6 digits) or
\* the string with each digit doubled (3 digits); red, green and blue are
\* the base-16 values of the three two-character groups of that name; alpha
\* is 255; the name is exactly 6 lowercase hex digits.
C1_ParseHexValid ==
    (ret # <<>> /\ IsHexColour(arg)) =>
        /\ ret[1].err = Nil
        /\ ret[1].hex.Name = Canon(arg)
        /\ ret[1].hex.Color = <<GroupVal(Canon(arg), 1), GroupVal(Canon(arg), 2),
                                GroupVal(Canon(arg), 3), 255>>
        /\ Len(ret[1].hex.Name) = 6
        /\ \A i \in 1..6 : ret[1].hex.Name[i] \in HexChars

C1_Witness ==
    /\ arg = Abc
    /\ ret # <<>>
    /\ ret[1].hex.Name = Aabbcc
    /\ ret[1].hex.Color = <<170, 187, 204, 255>>

\* C2: for every string that is not exactly 6 or exactly 3 characters from
\* [0-9a-f], parseHex returns the error "parse: not a hex color" with the
\* empty Hex value, and no colour.
C2_ParseHexRejects ==
    (ret # <<>> /\ ~IsHexColour(arg)) =>
        ret[1] = [hex |-> HexZero, err |-> errNotHex]

C2_Witness ==
    /\ arg = <<"F","F","F">>
    /\ ret # <<>>
    /\ ret[1].err = errNotHex
    /\ ret[1].hex.Color = <<>>

\* C10: when parseHex succeeds with result h, parseHex(h.Name) succeeds too
\* and returns the same channels, alpha and canonical name as h.
C10_ParseHexIdempotent ==
    ret2 # <<>> =>
        /\ ret[1].err = Nil
        /\ ret2[1].err = Nil
        /\ ret2[1].hex.Color = ret[1].hex.Color
        /\ ret2[1].hex.Name = ret[1].hex.Name

C10_Witness ==
    /\ arg = Abc
    /\ ret2 # <<>>
    /\ ret2[1].hex.Name = Aabbcc
    /\ ret2[1].hex.Color = <<170, 187, 204, 255>>

\* a decimal digit sequence that starts with 1-9
IsPositiveDecimal(d) ==
    /\ d # <<>>
    /\ d[1] \in {"1","2","3","4","5","6","7","8","9"}
    /\ \A i \in 1..Len(d) : d[i] \in {"0","1","2","3","4","5","6","7","8","9"}

\* the value fits the 64-bit int: at most 2^63 - 1
FitsInt(d) == ~DigitsExceed(d, MaxIntDigits)

\* the positions k at which str splits into <W> x <H> of the required form
SizeSplits(str) ==
    { k \in 1..Len(str) :
        /\ str[k] = "x"
        /\ IsPositiveDecimal(SubSeq(str, 1, k - 1))
        /\ IsPositiveDecimal(SubSeq(str, k + 1, Len(str)))
        /\ FitsInt(SubSeq(str, 1, k - 1))
        /\ FitsInt(SubSeq(str, k + 1, Len(str))) }

\* the decimal value of a digit sequence without leading zeros, as an int
DecimalValue(d) ==
    [neg |-> FALSE,
     mag |-> [i \in 1..Len(d) |-> CHOOSE v \in 0..9 : Digits[v + 1] = d[i]]]

\* the int is at least 1
AtLeastOne(i) == ~i.neg /\ i.mag[1] >= 1

Size800x600 == <<"8","0","0","x","6","0","0">>

\* C4: parseSize succeeds if and only if the whole string is <W>x<H> with W
\* and H decimal digit sequences that start with 1-9 and fit the int; then
\* Width = W and Height = H, both at least 1.  "800x600" gives 800 and 600;
\* "0x5", "10x", text around the pattern and out-of-range numbers give an
\* error.
C4_ParseSize ==
    ret # <<>> =>
        /\ (ret[1].err = Nil) <=> (SizeSplits(arg) # {})
        /\ ret[1].err = Nil =>
             \A k \in SizeSplits(arg) :
                /\ ret[1].size.Width = DecimalValue(SubSeq(arg, 1, k - 1))
                /\ ret[1].size.Height = DecimalValue(SubSeq(arg, k + 1, Len(arg)))
                /\ AtLeastOne(ret[1].size.Width)
                /\ AtLeastOne(ret[1].size.Height)
        /\ ret[1].err # Nil => ret[1].size = SizeZero
        /\ arg = Size800x600 =>
             /\ ret[1].err = Nil
             /\ IntVal(ret[1].size.Width) = 800
             /\ IntVal(ret[1].size.Height) = 600
        /\ arg \in { <<"0","x","5">>, <<"1","0","x">>, <<"a","2","x","2","b">>,
                     <<"1","x">> \o MaxIntDigits \o <<"0">>,
                     MinIntDigits \o <<"x","1">> } => ret[1].err # Nil

C4_Witness ==
    /\ arg = Size800x600
    /\ ret # <<>>
    /\ ret[1].err = Nil
    /\ ret[1].size = [Width |-> [neg |-> FALSE, mag |-> <<8, 0, 0>>],
                      Height |-> [neg |-> FALSE, mag |-> <<6, 0, 0>>]]

\* the line with at most one leading '#' removed
StripOneHash(str) == IF str # <<>> /\ str[1] = "#" THEN Tail(str) ELSE str

\* the whole line matches ^#?([0-9a-f]{6}|[0-9a-f]{3})$
MatchesOptionalHashColour(line) == IsHexColour(StripOneHash(line))

\* the line with every leading '#' removed
RECURSIVE StripHashes(_)
StripHashes(str) ==
    IF str # <<>> /\ str[1] = "#" THEN StripHashes(Tail(str)) ELSE str

\* the line is accepted as a colour: 3 or 6 lowercase hex digits after its
\* leading '#' characters
IsColourLine(line) == IsHexColour(StripHashes(line))

FileOf(line) == Canon(StripHashes(line)) \o <<".", "p", "n", "g">>

\* an image was produced for the i-th line: the file was opened and the
\* encoder reported no error
Produced(i) == trace[i].opened /\ trace[i].encErr = Nil

\* C3: only a single optional leading '#' is stripped: the string handed to
\* parseHex is the line with at most one leading '#' removed, and a line
\* produces an image only if the whole line matches
\* ^#?([0-9a-f]{6}|[0-9a-f]{3})$ (and does so whenever it matches and its
\* output file can be opened and written).
C3_SingleHashStripped ==
    \A i \in 1..Len(trace) :
        /\ trace[i].hex = StripOneHash(trace[i].raw)
        /\ Produced(i) => MatchesOptionalHashColour(trace[i].raw)
        /\ (MatchesOptionalHashColour(trace[i].raw) /\ faults = 0
                /\ trace[i].crash = Nil) => Produced(i)

LineBad == <<"b","a","d">>
LineRed == <<"r","e","d">>

\* the Skipping lines printed so far
Warnings == SelectSeq(out, LAMBDA m : m.kind = "skip")

\* the lines for which generateImage came back with an error
Skipped == SelectSeq(trace, LAMBDA e : e.err # Nil /\ ~e.fatal)

\* the files created or changed since the program started
Touched ==
    { n \in DOMAIN files : n \notin DOMAIN dir0 \/ files[n] # dir0[n] }

\* main got past its start-up and reached the scanner loop
ReachedLoop == input # Nil /\ sz # SizeZero

FatalPrinted == \E k \in 1..Len(out) : out[k].kind = "fatal"

\* the allocation of an image ended the process
Crashed == \E i \in 1..Len(trace) : trace[i].crash # Nil

\* C5 as stated: lines are processed one at a time in input order; a line
\* that fails validation is skipped with one warning and stops nothing;
\* the files written are exactly <canonical>.png for the valid lines; after
\* the last line the process exits 0 however many lines were skipped; and
\* a line "bad" is skipped with a warning, leaving no file.
C5_AsStated ==
    /\ Len(trace) <= Len(lines)
    /\ \A i \in 1..Len(trace) :
          /\ trace[i].raw = lines[i]
          /\ trace[i].raw = LineBad => trace[i].err = errNotHex
          /\ IsColourLine(trace[i].raw) => FileOf(trace[i].raw) \in DOMAIN files
    /\ Touched \subseteq { FileOf(trace[i].raw) : i \in 1..Len(trace) }
    /\ (pc = "exited" /\ ReachedLoop) =>
          /\ exitCode = 0
          /\ Len(trace) = Len(lines)
          /\ Len(Warnings) = Cardinality({ i \in 1..Len(trace) :
                                             ~IsColourLine(trace[i].raw) })

\* C5 as amended: lines are processed one at a time in input order.  A
\* line that is not 3 or 6 lowercase hex digits after its leading '#'
\* characters is skipped with one warning naming the stripped input, and so
\* is a valid line whose output file cannot be opened (or, in the first
\* revision, encoded); neither stops the loop.  The files created or
\* written are <canonical>.png of the valid lines whose file could be
\* opened, and each such file exists.  After the last line the process
\* exits 0 however many lines were skipped; it exits 1 only when a Close
\* failed in the first revision, and then possibly before the last line;
\* it exits 2 at the first valid line whose image cannot be allocated (its
\* 4*width*height bytes overflow the int, exceed the largest allocation
\* or are not available), that line leaving no file and no warning.
\* "bad" is a valid colour (bbaadd) and yields bbaadd.png with no warning;
\* "red" is skipped.
C5_LoopSkipsAndContinues ==
    /\ Len(trace) <= Len(lines)
    /\ \A i \in 1..Len(trace) :
          /\ trace[i].raw = lines[i]
          /\ trace[i].hex = StripHashes(lines[i])
          /\ ~IsColourLine(lines[i]) =>
                /\ trace[i].err = errNotHex
                /\ ~trace[i].opened
          /\ trace[i].opened => IsColourLine(lines[i])
          /\ (IsColourLine(lines[i]) /\ trace[i].opened) =>
                FileOf(lines[i]) \in DOMAIN files
          /\ lines[i] = LineBad =>
                /\ trace[i].name = <<"b","b","a","a","d","d">>
                /\ trace[i].err # errNotHex
          /\ lines[i] = LineRed => trace[i].err = errNotHex
    /\ DOMAIN dir0 \subseteq DOMAIN files
    /\ Touched \subseteq { FileOf(lines[i]) :
                             i \in { j \in 1..Len(trace) : trace[j].opened } }
    /\ Len(Warnings) = Len(Skipped)
    /\ \A k \in 1..Len(Warnings) :
          /\ Warnings[k].str = Skipped[k].hex
          /\ Warnings[k].err = Skipped[k].err
    /\ (pc = "exited" /\ ReachedLoop) =>
          /\ exitCode = (IF FatalPrinted THEN 1 ELSE IF Crashed THEN 2 ELSE 0)
          /\ exitCode = 0 => Len(trace) = Len(lines)
    /\ \A i \in 1..Len(trace) :
          trace[i].crash # Nil =>
             /\ IsColourLine(lines[i]) /\ ~trace[i].opened
             /\ i = Len(trace) /\ pc = "exited"
    /\ (ReachedLoop /\ ~FatalPrinted /\ ~Crashed /\ Len(trace) < Len(lines))
          => pc = "scan"

C5_Witness ==
    /\ pc = "exited" /\ exitCode = 0
    /\ lines = <<LineRed, <<"f","0","0">>>>
    /\ Len(trace) = 2
    /\ Len(Warnings) = 1 /\ Warnings[1].str = LineRed
    /\ NameRed \in Touched

\* C6: on every path from a successful getInput to process termination,
\* Close is called on the input stream exactly once.
C6_ClosedExactlyOnce ==
    (pc = "exited" /\ input # Nil) => closes = 1

\* the input source is unusable: no -file and standard input is a terminal,
\* reports size <= 0 or cannot be examined, or the named file cannot be
\* opened
InputUnusable ==
    \/ flags.file = "" /\ (env.statErr \/ env.charDevice \/ env.stdinSize <= 0)
    \/ flags.file # "" /\ env.openErr

\* the -size string is one the running revision rejects
SizeRejected ==
    IF rev = 1 THEN SizeSplits(flags.size) = {}
    ELSE \/ \A a \in 1..Len(flags.size), b \in 1..Len(flags.size) :
              SizeSplits(SubSeq(flags.size, a, b)) = {}
         \/ \E k \in 1..Len(flags.size) :
              /\ flags.size[k] = "x"
              /\ IsPositiveDecimal(SubSeq(flags.size, 1, k - 1))
              /\ IsPositiveDecimal(SubSeq(flags.size, k + 1, Len(flags.size)))
              /\ \/ ~FitsInt(SubSeq(flags.size, 1, k - 1))
                 \/ ~FitsInt(SubSeq(flags.size, k + 1, Len(flags.size)))

\* C7: when the input source is unusable or the -size string is invalid,
\* the process exits with a non-zero code before any input line is read and
\* before any image file is created or written.
C7_FatalStartupBeforeGeneration ==
    (InputUnusable \/ SizeRejected) =>
        /\ trace = <<>>
        /\ files = dir0
        /\ pc \in {"getInput", "parseSize", "exited"}
        /\ pc = "parseSize" => ~InputUnusable
        /\ pc = "exited" => exitCode = 1

C7_Witness ==
    /\ pc = "exited" /\ exitCode = 1
    /\ flags.file = "" /\ env.charDevice
    /\ lines # <<>>
    /\ trace = <<>> /\ files = dir0

\* C8: after generateImage succeeds for a colour, <canonical-hex>.png holds
\* exactly the PNG encoding of the new image and nothing else, whatever
\* file of that name existed before.
C8_FileIsExactlyNewImage ==
    \A i \in 1..Len(trace) :
        (i = Len(trace) /\ Produced(i) /\ ~trace[i].fatal) =>
            files[PngName(trace[i].name)]
                = Encode(FilledRGBA(IntVal(sz.Width), IntVal(sz.Height),
                                    trace[i].color))

\* the lines for which parse, file open and PNG encode all succeeded and
\* generateImage returned
Successes ==
    { i \in 1..Len(trace) :
        IsColourLine(trace[i].raw) /\ Produced(i) /\ ~trace[i].fatal }

\* C9: in the revision that prints the summary, the count starts at 0 and
\* is at every moment the number of lines so far for which generateImage
\* returned no error, so it grows by 1 for each such line and by 0 for each
\* skipped line; the number in the "Generated N images" line is the number
\* of successful lines, repeated colours counted once per line.
C9_CountIsSuccessfulLines ==
    rev = 1 =>
        /\ count = Cardinality(Successes)
        /\ Len(Warnings) = Len(trace) - Cardinality(Successes)
                           - Cardinality({ i \in 1..Len(trace) :
                                             trace[i].fatal
                                             \/ trace[i].crash # Nil })
        /\ \A k \in 1..Len(out) :
              out[k].kind = "generated" =>
                 /\ out[k].n = Cardinality(Successes)
                 /\ Len(trace) = Len(lines)

C9_Witness ==
    /\ rev = 1 /\ pc = "exited"
    /\ lines = <<<<"f","0","0">>, <<"#","#","f","0","0">>>>
    /\ count = 2
    /\ \E k \in 1..Len(out) : out[k].kind = "generated" /\ out[k].n = 2
    /\ Cardinality(Touched) = 1

====
